---- MODULE Spec2Model ----
(***************************************************************************)
(* Frame header and TOC decoding of jxl-rs (jxl/src/headers/frame_header.rs)*)
(* as a state machine: a bit cursor, a stack of records under              *)
(* construction, and one step per field of the declared field lists.       *)
(*                                                                         *)
(* The field lists, coders, presence conditions, defaults, size rules and  *)
(* sub-record contexts are transcribed from the struct annotations.  The   *)
(* engine that interprets them (the derive macro, the bit reader and the   *)
(* primitive coders) is not part of the given sources and is modelled from *)
(* section 4 of the specification.                                         *)
(*                                                                         *)
(* The input stream is revealed lazily: a read draws the raw value of each *)
(* chunk it consumes, or finds that the stream has ended.  The cursor      *)
(* never rewinds, so this is the same set of behaviours as fixing the      *)
(* stream up front.                                                        *)
(***************************************************************************)
EXTENDS Integers, Sequences, FiniteSets, TLC

VARIABLES top, ns0, stack, pos, log, result, used, nchecks, derived, cli

vars == <<top, ns0, stack, pos, log, result, used, nchecks, derived, cli>>

(***************************************************************************)
(* Bounds of the exploration.                                              *)
(***************************************************************************)
\* at most this many inputs (context attributes, raw chunks of the stream)
\* differ from zero in one decode
MaxNonzero == 2
\* extra channels of the image
MaxExtraChannels == 1
\* expected TOC entries handed to the TOC decode
MaxTocEntries == 2
\* bytes of a frame name
MaxNameLen == 1
\* continuation groups of a variable-length 64-bit integer
MaxVarintGroups == 1
\* bytes of the file handed to decode_jxl
MaxInput == 2
\* frames after which the decoder reports no more frames
MaxFrames == 2

(***************************************************************************)
(* Small helpers.                                                          *)
(***************************************************************************)
Pow2(n) == 2 ^ n

Repeat(x, n) == [i \in 1..n |-> x]

Max(a, b) == IF a >= b THEN a ELSE b

DivCeil(a, b) == (a + b - 1) \div b

RECURSIVE SumBits(_)
SumBits(chunks) ==
    IF chunks = <<>> THEN 0 ELSE Head(chunks).n + SumBits(Tail(chunks))

Nonzero(chunks) == Cardinality({i \in 1..Len(chunks) : chunks[i].v # 0})

\* raw values explored for an n-bit read
Sample(n) ==
    IF n = 0 THEN {0}
    ELSE IF n <= 2 THEN 0..(Pow2(n) - 1)
    ELSE IF n <= 30 THEN {v \in {0, 1, 2, 3, 5, 15, Pow2(n) - 1} : v < Pow2(n)}
    ELSE {0, 1, 2, 3, 5, 15, Pow2(30)}

Chunk(n, v) == [n |-> n, v |-> v]

(***************************************************************************)
(* Coder descriptors, as written in the #[coder(...)] annotations.         *)
(***************************************************************************)
Val(c) == [n |-> 0, off |-> c]

BitsOffset(n, off) == [n |-> n, off |-> off]

U2S(a, b, c, d) == [k |-> "U2S", alts |-> <<a, b, c, d>>]

Bits(n) == [k |-> "Bits", n |-> n]

BoolCoder == [k |-> "Bool"]

U64Coder == [k |-> "U64"]

F16Coder == [k |-> "F16"]

StringCoder == [k |-> "String"]

ExtensionsCoder == [k |-> "Extensions"]

Sub(rt) == [k |-> "Sub", rt |-> rt]

\* an enum field without a #[coder]: the format's Enum coding
EnumCoder == U2S(Val(0), Val(1), BitsOffset(4, 2), BitsOffset(6, 18))

\* an f32 constant that no 16-bit float equals, named by the nearest one
Inexact(h) == 65536 + h

(***************************************************************************)
(* Tag enumerations.  NoTag stands for from_u32 returning None.            *)
(***************************************************************************)
NoTag == "<none>"

FrameTypeFromU32(u) ==
    CASE u = 0 -> "RegularFrame"
      [] u = 1 -> "LFFrame"
      [] u = 2 -> "ReferenceOnly"
      [] u = 3 -> "SkipProgressive"
      [] OTHER -> NoTag

EncodingFromU32(u) ==
    CASE u = 0 -> "VarDCT"
      [] u = 1 -> "Modular"
      [] OTHER -> NoTag

BlendingModeFromU32Lenient(u) ==
    CASE u = 0 -> "Replace"
      [] u = 1 -> "Add"
      [] u = 2 -> "Blend"
      [] u = 3 -> "AlphaWeightedAdd"
      [] u = 4 -> "Mul"
      [] OTHER -> "Replace"

BlendingModeFromU32(u) ==
    CASE u = 0 -> "Replace"
      [] u = 1 -> "Add"
      [] u = 2 -> "Blend"
      [] u = 3 -> "AlphaWeightedAdd"
      [] u = 4 -> "Mul"
      [] OTHER -> NoTag

USE_LF_FRAME == 32

\* flags & mask == 0
FlagClear(flags, mask) == (flags \div mask) % 2 = 0

(***************************************************************************)
(* Passes                                                                  *)
(***************************************************************************)
PassesFieldsSwapped ==
    <<"num_ds", "num_passes", "shift", "downsample", "last_pass">>

PassesFields == <<"num_passes", "num_ds", "shift", "downsample", "last_pass">>

PassesCoderOff3 ==
    [num_passes |-> U2S(Val(1), Val(2), Val(3), BitsOffset(3, 3)),
     num_ds     |-> U2S(Val(0), Val(1), Val(2), BitsOffset(1, 3)),
     shift      |-> Bits(2),
     downsample |-> U2S(Val(1), Val(2), Val(4), Val(8)),
     last_pass  |-> U2S(Val(0), Val(1), Val(2), BitsOffset(3, 0))]

PassesCoder ==
    [num_passes |-> U2S(Val(1), Val(2), Val(3), BitsOffset(3, 4)),
     num_ds     |-> U2S(Val(0), Val(1), Val(2), BitsOffset(1, 3)),
     shift      |-> Bits(2),
     downsample |-> U2S(Val(1), Val(2), Val(4), Val(8)),
     last_pass  |-> U2S(Val(0), Val(1), Val(2), BitsOffset(3, 0))]

PassesType ==
    [num_passes |-> "u32", num_ds |-> "u32", shift |-> "u32",
     downsample |-> "u32", last_pass |-> "u32"]

PassesIsVec(f) == f \in {"shift", "downsample", "last_pass"}

\* the sizes with one shift per pass
PassesSizePerPass(f, r, ns) ==
    CASE f = "shift" -> r.num_passes
      [] f = "downsample" -> r.num_ds
      [] f = "last_pass" -> r.num_ds

PassesSize(f, r, ns) ==
    CASE f = "shift" -> r.num_passes - 1
      [] f = "downsample" -> r.num_ds
      [] f = "last_pass" -> r.num_ds

PassesCondition(f, r, ns) ==
    CASE f = "num_passes" -> TRUE
      [] OTHER -> r.num_passes # 1

PassesDefault(f, r, ns) ==
    CASE f = "num_passes" -> 1
      [] f = "num_ds" -> 0
      [] f = "shift" -> Repeat(0, PassesSize(f, r, ns))
      [] f = "downsample" -> Repeat(1, PassesSize(f, r, ns))
      [] f = "last_pass" -> Repeat(0, PassesSize(f, r, ns))

\* the fields a field's condition, default and size rule mention
PassesDeps(f) ==
    CASE f = "num_passes" -> {}
      [] f = "num_ds" -> {"num_passes"}
      [] f = "shift" -> {"num_passes"}
      [] f = "downsample" -> {"num_passes", "num_ds"}
      [] f = "last_pass" -> {"num_passes", "num_ds"}

(***************************************************************************)
(* BlendingInfo                                                            *)
(***************************************************************************)
BlendingInfoFields == <<"mode", "alpha_channel", "clamp", "source">>

BlendingInfoCoder ==
    [mode          |-> U2S(Val(0), Val(1), Val(2), BitsOffset(2, 3)),
     alpha_channel |-> U2S(Val(0), Val(1), Val(2), BitsOffset(3, 3)),
     clamp         |-> BoolCoder,
     source        |-> U2S(Val(0), Val(1), Val(2), Val(3))]

BlendingInfoType ==
    [mode |-> "BlendingMode", alpha_channel |-> "u32", clamp |-> "bool",
     source |-> "u32"]

\* "the frame area given by width and height and offsets x0 and y0
\* completely covers the image area", or there is no crop
FullFrame(have_crop, x0, y0, width, height, img_width, img_height) ==
    \/ ~have_crop
    \/ /\ x0 = 0
       /\ y0 = 0
       /\ width + x0 >= img_width
       /\ height + y0 >= img_height

BlendingInfoCondition(f, r, ns) ==
    CASE f = "mode" -> TRUE
      [] f = "alpha_channel" ->
            /\ ns.num_extra_channels > 0
            /\ r.mode \in {"Blend", "AlphaWeightedAdd"}
      [] f = "clamp" ->
            /\ ns.num_extra_channels > 0
            /\ r.mode \in {"Blend", "AlphaWeightedAdd", "Mul"}
      [] f = "source" ->
            /\ r.mode # "Replace"
            /\ ~FullFrame(ns.have_crop, ns.x0, ns.y0, ns.width, ns.height,
                          ns.img_width, ns.img_height)

BlendingInfoDefault(f, r, ns) ==
    CASE f = "mode" -> "Replace"
      [] f = "alpha_channel" -> 0
      [] f = "clamp" -> FALSE
      [] f = "source" -> 0

BlendingInfoDeps(f) ==
    CASE f = "mode" -> {}
      [] OTHER -> {"mode"}

(***************************************************************************)
(* RestorationFilter                                                       *)
(***************************************************************************)
RestorationFilterFields ==
    <<"all_default", "gab", "gab_custom", "gab_x_weight1", "gab_x_weight2",
      "gab_y_weight1", "gab_y_weight2", "gab_b_weight1", "gab_b_weight2",
      "epf_iters", "epf_sharp_custom", "epf_sharp_lut", "epf_weight_custom",
      "epf_channel_scale", "epf_pass1_zeroflush", "epf_pass2_zeroflush",
      "epf_sigma_custom", "epf_quant_mul", "epf_pass0_sigma_scale",
      "epf_pass2_sigma_scale", "epf_border_sad_mul", "epf_sigma_for_modular",
      "extensions">>

RestorationFilterBools ==
    {"all_default", "gab", "gab_custom", "epf_sharp_custom",
     "epf_weight_custom", "epf_sigma_custom"}

RestorationFilterCoder(f) ==
    CASE f \in RestorationFilterBools -> BoolCoder
      [] f = "epf_iters" -> Bits(2)
      [] f = "extensions" -> ExtensionsCoder
      [] OTHER -> F16Coder

RestorationFilterType(f) ==
    CASE f \in RestorationFilterBools -> "bool"
      [] f = "epf_iters" -> "u32"
      [] f = "extensions" -> "Extensions"
      [] OTHER -> "f32"

RestorationFilterIsVec(f) == f \in {"epf_sharp_lut", "epf_channel_scale"}

RestorationFilterSize(f, r, ns) ==
    CASE f = "epf_sharp_lut" -> 8
      [] f = "epf_channel_scale" -> 3

RestorationFilterCondition(f, r, ns) ==
    CASE f \in {"all_default", "gab", "epf_iters", "extensions"} -> TRUE
      [] f = "gab_custom" -> r.gab
      [] f \in {"gab_x_weight1", "gab_x_weight2", "gab_y_weight1",
                "gab_y_weight2", "gab_b_weight1", "gab_b_weight2"} ->
            r.gab_custom
      [] f = "epf_sharp_custom" -> r.epf_iters > 0 /\ ns.encoding = "VarDCT"
      [] f = "epf_sharp_lut" -> r.epf_sharp_custom
      [] f = "epf_weight_custom" -> r.epf_iters > 0
      [] f \in {"epf_channel_scale", "epf_pass1_zeroflush",
                "epf_pass2_zeroflush"} -> r.epf_weight_custom
      [] f = "epf_sigma_custom" -> r.epf_iters > 0
      [] f = "epf_quant_mul" -> r.epf_sigma_custom /\ ns.encoding = "VarDCT"
      [] f \in {"epf_pass0_sigma_scale", "epf_pass2_sigma_scale",
                "epf_border_sad_mul"} -> r.epf_sigma_custom
      [] f = "epf_sigma_for_modular" ->
            r.epf_iters > 0 /\ ns.encoding = "Modular"

\* f32 values are 16-bit float codes where one is exact (0.0 = 0,
\* 1.0 = 15360, 40.0 = 20736, 5.0 = 17664, 3.5 = 17152, 6.5 = 18048)
RestorationFilterDefault(f, r, ns) ==
    CASE f = "all_default" -> TRUE
      [] f = "gab" -> TRUE
      [] f \in {"gab_custom", "epf_sharp_custom", "epf_weight_custom",
                "epf_sigma_custom"} -> FALSE
      [] f \in {"gab_x_weight1", "gab_y_weight1", "gab_b_weight1"} ->
            Inexact(12127)
      [] f \in {"gab_x_weight2", "gab_y_weight2", "gab_b_weight2"} ->
            Inexact(11223)
      [] f = "epf_iters" -> 2
      [] f = "epf_sharp_lut" ->
            <<0, Inexact(12434), Inexact(13458), Inexact(14043),
              Inexact(14482), Inexact(14775), Inexact(15067), 15360>>
      [] f = "epf_channel_scale" -> <<20736, 17664, 17152>>
      [] f = "epf_pass1_zeroflush" -> Inexact(14131)
      [] f = "epf_pass2_zeroflush" -> Inexact(14541)
      [] f = "epf_quant_mul" -> Inexact(14172)
      [] f = "epf_pass0_sigma_scale" -> Inexact(15155)
      [] f = "epf_pass2_sigma_scale" -> 18048
      [] f = "epf_border_sad_mul" -> Inexact(14677)
      [] f = "epf_sigma_for_modular" -> 15360
      [] f = "extensions" -> "Extensions"

RestorationFilterDeps(f) ==
    CASE f \in {"all_default", "gab", "epf_iters", "extensions"} -> {}
      [] f = "gab_custom" -> {"gab"}
      [] f \in {"gab_x_weight1", "gab_x_weight2", "gab_y_weight1",
                "gab_y_weight2", "gab_b_weight1", "gab_b_weight2"} ->
            {"gab_custom"}
      [] f = "epf_sharp_lut" -> {"epf_sharp_custom"}
      [] f \in {"epf_sharp_custom", "epf_weight_custom", "epf_sigma_custom",
                "epf_sigma_for_modular"} -> {"epf_iters"}
      [] f \in {"epf_channel_scale", "epf_pass1_zeroflush",
                "epf_pass2_zeroflush"} -> {"epf_weight_custom"}
      [] f \in {"epf_quant_mul", "epf_pass0_sigma_scale",
                "epf_pass2_sigma_scale", "epf_border_sad_mul"} ->
            {"epf_sigma_custom"}

(***************************************************************************)
(* Permutation and Toc                                                     *)
(***************************************************************************)
PermutationFields == <<>>

TocFields == <<"permuted", "permutation", "entries">>

TocCoder ==
    [permuted    |-> BoolCoder,
     permutation |-> Sub("Permutation"),
     entries     |-> U2S(BitsOffset(10, 0), BitsOffset(14, 1024),
                         BitsOffset(22, 17408), BitsOffset(30, 4211712))]

TocType ==
    [permuted |-> "bool", permutation |-> "Permutation", entries |-> "u32"]

TocIsVec(f) == f = "entries"

TocSizeOneMore(f, r, ns) == ns.num_entries + 1

TocSize(f, r, ns) == ns.num_entries

TocCondition(f, r, ns) ==
    CASE f = "permutation" -> r.permuted
      [] OTHER -> TRUE

TocDefault(f, r, ns) ==
    CASE f = "permuted" -> FALSE
      [] f = "permutation" -> <<>>
      [] f = "entries" -> <<>>

TocDeps(f) ==
    CASE f = "permutation" -> {"permuted"}
      [] OTHER -> {}

(***************************************************************************)
(* FrameHeader                                                             *)
(***************************************************************************)
FrameHeaderFields ==
    <<"all_default", "frame_type", "encoding", "flags", "do_ycbcr",
      "jpeg_upsampling", "upsampling", "ec_upsampling", "group_size_shift",
      "x_qm_scale", "b_qm_scale", "passes", "lf_level", "have_crop", "x0",
      "y0", "width", "height", "blending_info", "ec_blending_info",
      "duration", "timecode", "is_last", "save_as_reference",
      "save_before_ct", "name", "restoration_filter", "extensions">>

CropCoder ==
    U2S(BitsOffset(8, 0), BitsOffset(11, 256), BitsOffset(14, 2304),
        BitsOffset(30, 18688))

FrameHeaderCoder(f) ==
    CASE f \in {"all_default", "do_ycbcr", "have_crop", "is_last",
                "save_before_ct"} -> BoolCoder
      [] f = "frame_type" -> EnumCoder
      [] f = "encoding" -> Bits(1)
      [] f = "flags" -> U64Coder
      [] f = "jpeg_upsampling" -> Bits(2)
      [] f \in {"upsampling", "ec_upsampling"} ->
            U2S(Val(1), Val(2), Val(4), Val(8))
      [] f = "group_size_shift" -> Bits(2)
      [] f \in {"x_qm_scale", "b_qm_scale"} -> Bits(3)
      [] f = "passes" -> Sub("Passes")
      [] f = "lf_level" -> U2S(Val(1), Val(2), Val(3), Val(4))
      [] f \in {"x0", "y0", "width", "height"} -> CropCoder
      [] f \in {"blending_info", "ec_blending_info"} -> Sub("BlendingInfo")
      [] f = "duration" ->
            U2S(Val(0), Val(1), BitsOffset(8, 0), BitsOffset(32, 0))
      [] f = "timecode" -> Bits(32)
      [] f = "save_as_reference" -> Bits(2)
      [] f = "name" -> StringCoder
      [] f = "restoration_filter" -> Sub("RestorationFilter")
      [] f = "extensions" -> ExtensionsCoder

FrameHeaderType(f) ==
    CASE f \in {"all_default", "do_ycbcr", "have_crop", "is_last",
                "save_before_ct"} -> "bool"
      [] f = "frame_type" -> "FrameType"
      [] f = "encoding" -> "Encoding"
      [] f = "flags" -> "u64"
      [] f \in {"x0", "y0"} -> "i32"
      [] f = "passes" -> "Passes"
      [] f \in {"blending_info", "ec_blending_info"} -> "BlendingInfo"
      [] f = "name" -> "String"
      [] f = "restoration_filter" -> "RestorationFilter"
      [] f = "extensions" -> "Extensions"
      [] OTHER -> "u32"

FrameHeaderIsVec(f) ==
    f \in {"jpeg_upsampling", "ec_upsampling", "ec_blending_info"}

FrameHeaderSize(f, r, ns) ==
    CASE f = "jpeg_upsampling" -> 3
      [] f = "ec_upsampling" -> ns.num_extra_channels
      [] f = "ec_blending_info" -> ns.num_extra_channels

NormalFrame(frame_type) == frame_type \in {"RegularFrame", "SkipProgressive"}

\* the conditions with group_size_shift read whatever the encoding
FrameHeaderConditionGss(f, r, ns) ==
    CASE f \in {"all_default", "frame_type", "encoding", "flags",
                "ec_blending_info", "name", "restoration_filter",
                "extensions"} -> TRUE
      [] f = "do_ycbcr" -> ~ns.xyb_encoded
      [] f = "jpeg_upsampling" ->
            r.do_ycbcr /\ FlagClear(r.flags, USE_LF_FRAME)
      [] f \in {"upsampling", "ec_upsampling"} ->
            FlagClear(r.flags, USE_LF_FRAME)
      [] f = "group_size_shift" -> TRUE
      [] f \in {"x_qm_scale", "b_qm_scale"} ->
            r.encoding = "VarDCT" /\ ns.xyb_encoded
      [] f = "passes" -> r.frame_type # "ReferenceOnly"
      [] f = "lf_level" -> r.frame_type = "LFFrame"
      [] f = "have_crop" -> r.frame_type # "LFFrame"
      [] f \in {"x0", "y0"} ->
            r.have_crop /\ r.frame_type # "ReferenceOnly"
      [] f \in {"width", "height"} -> r.have_crop
      [] f = "blending_info" -> NormalFrame(r.frame_type)
      [] f = "duration" -> NormalFrame(r.frame_type) /\ ns.have_animation
      [] f = "timecode" -> NormalFrame(r.frame_type) /\ ns.have_timecode
      [] f = "is_last" -> NormalFrame(r.frame_type)
      [] f = "save_as_reference" -> r.frame_type # "LFFrame" /\ ~r.is_last
      [] f = "save_before_ct" -> r.frame_type # "LFFrame"

FrameHeaderCondition(f, r, ns) ==
    CASE f \in {"all_default", "frame_type", "encoding", "flags",
                "ec_blending_info", "name", "restoration_filter",
                "extensions"} -> TRUE
      [] f = "do_ycbcr" -> ~ns.xyb_encoded
      [] f = "jpeg_upsampling" ->
            r.do_ycbcr /\ FlagClear(r.flags, USE_LF_FRAME)
      [] f \in {"upsampling", "ec_upsampling"} ->
            FlagClear(r.flags, USE_LF_FRAME)
      [] f = "group_size_shift" -> r.encoding = "Modular"
      [] f \in {"x_qm_scale", "b_qm_scale"} ->
            r.encoding = "VarDCT" /\ ns.xyb_encoded
      [] f = "passes" -> r.frame_type # "ReferenceOnly"
      [] f = "lf_level" -> r.frame_type = "LFFrame"
      [] f = "have_crop" -> r.frame_type # "LFFrame"
      [] f \in {"x0", "y0"} ->
            r.have_crop /\ r.frame_type # "ReferenceOnly"
      [] f \in {"width", "height"} -> r.have_crop
      [] f = "blending_info" -> NormalFrame(r.frame_type)
      [] f = "duration" -> NormalFrame(r.frame_type) /\ ns.have_animation
      [] f = "timecode" -> NormalFrame(r.frame_type) /\ ns.have_timecode
      [] f = "is_last" -> NormalFrame(r.frame_type)
      [] f = "save_as_reference" -> r.frame_type # "LFFrame" /\ ~r.is_last
      [] f = "save_before_ct" -> r.frame_type # "LFFrame"

\* the #[default(...)] expression of save_before_ct as the code groups it:
\* the leading ! covers the full-frame term only
SaveBeforeCtDefault(r, ns) ==
    /\ ~FullFrame(r.have_crop, r.x0, r.y0, r.width, r.height,
                  ns.img_width, ns.img_height)
    /\ NormalFrame(r.frame_type)
    /\ r.blending_info.mode = "Replace"
    /\ (r.duration = 0 \/ r.save_as_reference # 0)
    /\ ~r.is_last

BlendingInfoDefaultRec ==
    [mode |-> BlendingInfoDefault("mode", <<>>, <<>>),
     alpha_channel |-> BlendingInfoDefault("alpha_channel", <<>>, <<>>),
     clamp |-> BlendingInfoDefault("clamp", <<>>, <<>>),
     source |-> BlendingInfoDefault("source", <<>>, <<>>)]

PassesDefaultRec ==
    LET r1 == [num_passes |-> PassesDefault("num_passes", <<>>, <<>>)]
        r2 == r1 @@ [num_ds |-> PassesDefault("num_ds", r1, <<>>)]
    IN  r2 @@ [shift |-> PassesDefault("shift", r2, <<>>),
               downsample |-> PassesDefault("downsample", r2, <<>>),
               last_pass |-> PassesDefault("last_pass", r2, <<>>)]

RestorationFilterDefaultRec ==
    [i \in {RestorationFilterFields[j] :
                j \in 1..Len(RestorationFilterFields)} |->
        RestorationFilterDefault(i, <<>>, <<>>)]

FrameHeaderDefaultXqm2(f, r, ns) ==
    CASE f = "all_default" -> TRUE
      [] f = "frame_type" -> "RegularFrame"
      [] f = "encoding" -> "VarDCT"
      [] f = "flags" -> 0
      [] f = "do_ycbcr" -> FALSE
      [] f = "jpeg_upsampling" -> <<0, 0, 0>>
      [] f = "upsampling" -> 1
      [] f = "ec_upsampling" -> Repeat(1, FrameHeaderSize(f, r, ns))
      [] f = "group_size_shift" -> 1
      [] f = "x_qm_scale" -> 2
      [] f = "b_qm_scale" -> 2
      [] f = "passes" -> PassesDefaultRec
      [] f = "lf_level" -> 0
      [] f = "have_crop" -> FALSE
      [] f \in {"x0", "y0", "width", "height"} -> 0
      [] f = "blending_info" -> BlendingInfoDefaultRec
      [] f = "ec_blending_info" ->
            Repeat(BlendingInfoDefaultRec, FrameHeaderSize(f, r, ns))
      [] f \in {"duration", "timecode"} -> 0
      [] f = "is_last" -> r.frame_type = "RegularFrame"
      [] f = "save_as_reference" -> 0
      [] f = "save_before_ct" -> SaveBeforeCtDefault(r, ns)
      [] f = "name" -> <<>>
      [] f = "restoration_filter" -> RestorationFilterDefaultRec
      [] f = "extensions" -> "Extensions"

\* the defaults with is_last true whatever the frame type
FrameHeaderDefaultLast(f, r, ns) ==
    CASE f = "all_default" -> TRUE
      [] f = "frame_type" -> "RegularFrame"
      [] f = "encoding" -> "VarDCT"
      [] f = "flags" -> 0
      [] f = "do_ycbcr" -> FALSE
      [] f = "jpeg_upsampling" -> <<0, 0, 0>>
      [] f = "upsampling" -> 1
      [] f = "ec_upsampling" -> Repeat(1, FrameHeaderSize(f, r, ns))
      [] f = "group_size_shift" -> 1
      [] f = "x_qm_scale" -> 3
      [] f = "b_qm_scale" -> 2
      [] f = "passes" -> PassesDefaultRec
      [] f = "lf_level" -> 0
      [] f = "have_crop" -> FALSE
      [] f \in {"x0", "y0", "width", "height"} -> 0
      [] f = "blending_info" -> BlendingInfoDefaultRec
      [] f = "ec_blending_info" ->
            Repeat(BlendingInfoDefaultRec, FrameHeaderSize(f, r, ns))
      [] f \in {"duration", "timecode"} -> 0
      [] f = "is_last" -> TRUE
      [] f = "save_as_reference" -> 0
      [] f = "save_before_ct" -> SaveBeforeCtDefault(r, ns)
      [] f = "name" -> <<>>
      [] f = "restoration_filter" -> RestorationFilterDefaultRec
      [] f = "extensions" -> "Extensions"

FrameHeaderDefault(f, r, ns) ==
    CASE f = "all_default" -> TRUE
      [] f = "frame_type" -> "RegularFrame"
      [] f = "encoding" -> "VarDCT"
      [] f = "flags" -> 0
      [] f = "do_ycbcr" -> FALSE
      [] f = "jpeg_upsampling" -> <<0, 0, 0>>
      [] f = "upsampling" -> 1
      [] f = "ec_upsampling" -> Repeat(1, FrameHeaderSize(f, r, ns))
      [] f = "group_size_shift" -> 1
      [] f = "x_qm_scale" -> 3
      [] f = "b_qm_scale" -> 2
      [] f = "passes" -> PassesDefaultRec
      [] f = "lf_level" -> 0
      [] f = "have_crop" -> FALSE
      [] f \in {"x0", "y0", "width", "height"} -> 0
      [] f = "blending_info" -> BlendingInfoDefaultRec
      [] f = "ec_blending_info" ->
            Repeat(BlendingInfoDefaultRec, FrameHeaderSize(f, r, ns))
      [] f \in {"duration", "timecode"} -> 0
      [] f = "is_last" -> r.frame_type = "RegularFrame"
      [] f = "save_as_reference" -> 0
      [] f = "save_before_ct" -> SaveBeforeCtDefault(r, ns)
      [] f = "name" -> <<>>
      [] f = "restoration_filter" -> RestorationFilterDefaultRec
      [] f = "extensions" -> "Extensions"

\* the context handed to a sub-record, from the #[nonserialized(...)] lists
FrameHeaderSubNs(f, r, ns) ==
    CASE f \in {"blending_info", "ec_blending_info"} ->
            [num_extra_channels |-> ns.num_extra_channels,
             have_crop |-> r.have_crop,
             x0 |-> r.x0, y0 |-> r.y0,
             width |-> r.width, height |-> r.height,
             img_width |-> ns.img_width, img_height |-> ns.img_height]
      [] f = "restoration_filter" -> [encoding |-> r.encoding]
      [] OTHER -> <<>>

FrameHeaderDeps(f) ==
    CASE f \in {"all_default", "frame_type", "encoding", "flags", "do_ycbcr",
                "name", "extensions"} -> {}
      [] f = "jpeg_upsampling" -> {"do_ycbcr", "flags"}
      [] f \in {"upsampling", "ec_upsampling"} -> {"flags"}
      [] f \in {"group_size_shift", "x_qm_scale", "b_qm_scale"} ->
            {"encoding"}
      [] f \in {"passes", "lf_level", "have_crop", "duration", "timecode",
                "is_last"} -> {"frame_type"}
      [] f \in {"x0", "y0"} -> {"have_crop", "frame_type"}
      [] f \in {"width", "height"} -> {"have_crop"}
      [] f = "blending_info" ->
            {"frame_type", "have_crop", "x0", "y0", "width", "height"}
      [] f = "ec_blending_info" ->
            {"have_crop", "x0", "y0", "width", "height"}
      [] f = "save_as_reference" -> {"frame_type", "is_last"}
      [] f = "save_before_ct" ->
            {"have_crop", "x0", "y0", "width", "height", "frame_type",
             "blending_info", "duration", "save_as_reference", "is_last"}
      [] f = "restoration_filter" -> {"encoding"}

(***************************************************************************)
(* impl FrameHeader                                                        *)
(***************************************************************************)
\* x << s on a u32; every operand in reach stays far below 2^32
Shl32(x, s) == x * Pow2(s)

H_SHIFT == <<0, 1, 1, 0>>

V_SHIFT == <<0, 1, 0, 1>>

GROUP_DIM == 256

BLOCK_DIM == 8

Half == 65536

\* a * b on u32 for a, b < 2^24, as the two 16-bit halves of the wrapped
\* product and whether the product overflowed
Mul32(a, b) ==
    LET ah == a \div 4096
        al == a % 4096
        bh == b \div 4096
        bl == b % 4096
        p2 == ah * bh
        p1 == ah * bl + al * bh
        p0 == al * bl
        s0 == p0 + (p1 % 16) * 4096
        h  == (s0 \div Half) + (p1 \div 16) + (p2 % 256) * 256
    IN  [lo |-> s0 % Half, hi |-> h % Half, over |-> h >= Half \/ p2 >= 256]

\* what num_toc_entries does: it returns a u32 (as two 16-bit halves) or
\* panics
Returned(hi, lo) == [st |-> "value", hi |-> hi, lo |-> lo]

Panicked == [st |-> "panic", hi |-> 0, lo |-> 0]

\* num_toc_entries with the DC groups counted like the groups, from the
\* pixel size
num_toc_entries_pixels(self, checks) ==
    LET group_dim == Shl32(GROUP_DIM \div 2, self.group_size_shift)
        num_groups == Mul32(DivCeil(self.width, group_dim),
                            DivCeil(self.height, group_dim))
        sum_lo == num_groups.lo + 2
        sum_hi == num_groups.hi + (sum_lo \div Half)
    IN  IF checks /\ num_groups.over
        THEN Panicked
        ELSE IF /\ num_groups.hi = 0
                /\ num_groups.lo = 1
                /\ self.passes.num_passes = 1
        THEN Returned(0, 1)
        ELSE IF checks /\ sum_hi >= Half
        THEN Panicked
        ELSE Returned(sum_hi % Half, sum_lo % Half)

\* checks: the build traps arithmetic overflow (otherwise it wraps)
num_toc_entries(self, checks) ==
    LET ups == self.jpeg_upsampling
        maxhs == Max(Max(H_SHIFT[ups[1] + 1], H_SHIFT[ups[2] + 1]),
                     H_SHIFT[ups[3] + 1])
        maxvs == Max(Max(V_SHIFT[ups[1] + 1], V_SHIFT[ups[2] + 1]),
                     V_SHIFT[ups[3] + 1])
        xsize_blocks ==
            Shl32(DivCeil(self.width, Shl32(BLOCK_DIM, maxhs)), maxhs)
        ysize_blocks ==
            Shl32(DivCeil(self.height, Shl32(BLOCK_DIM, maxvs)), maxvs)
        group_dim == Shl32(GROUP_DIM \div 2, self.group_size_shift)
        xsize_groups == DivCeil(self.width, group_dim)
        ysize_groups == DivCeil(self.height, group_dim)
        xsize_dc_groups == DivCeil(xsize_blocks, group_dim)
        ysize_dc_groups == DivCeil(ysize_blocks, group_dim)
        num_groups == Mul32(xsize_groups, ysize_groups)
        num_dc_groups == Mul32(xsize_dc_groups, ysize_dc_groups)
        sum_lo == num_dc_groups.lo + 2
        sum_hi == num_dc_groups.hi + (sum_lo \div Half)
    IN  IF checks /\ (num_groups.over \/ num_dc_groups.over)
        THEN Panicked
        ELSE IF /\ num_groups.hi = 0
                /\ num_groups.lo = 1
                /\ self.passes.num_passes = 1
        THEN Returned(0, 1)
        ELSE IF checks /\ sum_hi >= Half
        THEN Panicked
        ELSE Returned(sum_hi % Half, sum_lo % Half)

Min(a, b) == IF a <= b THEN a ELSE b

\* the channels the zip of extra_channel_info and ec_upsampling pairs up
Zipped(self, nonserialized) ==
    1..Min(Len(nonserialized.extra_channel_info), Len(self.ec_upsampling))

EcInvalidLe(self, nonserialized, i) ==
    \/ Shl32(self.ec_upsampling[i], nonserialized.extra_channel_info[i])
         <= self.upsampling
    \/ self.ec_upsampling[i] > 8

EcInvalid(self, nonserialized, i) ==
    \/ Shl32(self.ec_upsampling[i], nonserialized.extra_channel_info[i])
         < self.upsampling
    \/ self.ec_upsampling[i] > 8

\* check with the pass-count failure reported as the cursor's error
checkAsTruncation(self, nonserialized) ==
    IF /\ self.upsampling > 1
       /\ \E i \in Zipped(self, nonserialized) :
            EcInvalid(self, nonserialized, i)
    THEN "InvalidEcUpsampling"
    ELSE IF self.passes.num_ds >= self.passes.num_passes
    THEN "OutOfBounds"
    ELSE "Ok"

checkNoPasses(self, nonserialized) ==
    IF /\ self.upsampling > 1
       /\ \E i \in Zipped(self, nonserialized) :
            EcInvalid(self, nonserialized, i)
    THEN "InvalidEcUpsampling"
    ELSE "Ok"

check(self, nonserialized) ==
    IF /\ self.upsampling > 1
       /\ \E i \in Zipped(self, nonserialized) :
            EcInvalid(self, nonserialized, i)
    THEN "InvalidEcUpsampling"
    ELSE IF self.passes.num_ds >= self.passes.num_passes
    THEN "NumPassesTooLarge"
    ELSE "Ok"

(***************************************************************************)
(* Dispatch over the record types.                                         *)
(***************************************************************************)
RecordTypes ==
    {"FrameHeader", "Toc", "Passes", "BlendingInfo", "RestorationFilter"}

Fields(rt) ==
    CASE rt = "Passes" -> PassesFields
      [] rt = "BlendingInfo" -> BlendingInfoFields
      [] rt = "RestorationFilter" -> RestorationFilterFields
      [] rt = "Permutation" -> PermutationFields
      [] rt = "Toc" -> TocFields
      [] rt = "FrameHeader" -> FrameHeaderFields

FieldSet(rt) == {Fields(rt)[i] : i \in 1..Len(Fields(rt))}

Coder(rt, f) ==
    CASE rt = "Passes" -> PassesCoder[f]
      [] rt = "BlendingInfo" -> BlendingInfoCoder[f]
      [] rt = "RestorationFilter" -> RestorationFilterCoder(f)
      [] rt = "Toc" -> TocCoder[f]
      [] rt = "FrameHeader" -> FrameHeaderCoder(f)

Type(rt, f) ==
    CASE rt = "Passes" -> PassesType[f]
      [] rt = "BlendingInfo" -> BlendingInfoType[f]
      [] rt = "RestorationFilter" -> RestorationFilterType(f)
      [] rt = "Toc" -> TocType[f]
      [] rt = "FrameHeader" -> FrameHeaderType(f)

IsVec(rt, f) ==
    CASE rt = "Passes" -> PassesIsVec(f)
      [] rt = "BlendingInfo" -> FALSE
      [] rt = "RestorationFilter" -> RestorationFilterIsVec(f)
      [] rt = "Toc" -> TocIsVec(f)
      [] rt = "FrameHeader" -> FrameHeaderIsVec(f)

Size(rt, f, r, ns) ==
    CASE rt = "Passes" -> PassesSize(f, r, ns)
      [] rt = "RestorationFilter" -> RestorationFilterSize(f, r, ns)
      [] rt = "Toc" -> TocSize(f, r, ns)
      [] rt = "FrameHeader" -> FrameHeaderSize(f, r, ns)

Condition(rt, f, r, ns) ==
    CASE rt = "Passes" -> PassesCondition(f, r, ns)
      [] rt = "BlendingInfo" -> BlendingInfoCondition(f, r, ns)
      [] rt = "RestorationFilter" -> RestorationFilterCondition(f, r, ns)
      [] rt = "Toc" -> TocCondition(f, r, ns)
      [] rt = "FrameHeader" -> FrameHeaderCondition(f, r, ns)

Default(rt, f, r, ns) ==
    CASE rt = "Passes" -> PassesDefault(f, r, ns)
      [] rt = "BlendingInfo" -> BlendingInfoDefault(f, r, ns)
      [] rt = "RestorationFilter" -> RestorationFilterDefault(f, r, ns)
      [] rt = "Toc" -> TocDefault(f, r, ns)
      [] rt = "FrameHeader" -> FrameHeaderDefault(f, r, ns)

SubNs(rt, f, r, ns) ==
    CASE rt = "FrameHeader" -> FrameHeaderSubNs(f, r, ns)
      [] OTHER -> <<>>

Deps(rt, f) ==
    CASE rt = "Passes" -> PassesDeps(f)
      [] rt = "BlendingInfo" -> BlendingInfoDeps(f)
      [] rt = "RestorationFilter" -> RestorationFilterDeps(f)
      [] rt = "Toc" -> TocDeps(f)
      [] rt = "FrameHeader" -> FrameHeaderDeps(f)

\* the record attributes #[all_default], #[aligned] and #[validate]
HasAllDefault(rt) == rt \in {"FrameHeader", "RestorationFilter"}

Aligned(rt) == rt = "FrameHeader"

ValidatesNothing(rt) == FALSE

Validates(rt) == rt = "FrameHeader"

Validation(rt, r, ns) == IF rt = "FrameHeader" THEN check(r, ns) ELSE "Ok"

(***************************************************************************)
(* The primitive coders: what one read consumes and returns.               *)
(***************************************************************************)
U2SOutcomes(alts) ==
    UNION {{[chunks |-> IF alts[s + 1].n = 0
                        THEN <<Chunk(2, s)>>
                        ELSE <<Chunk(2, s), Chunk(alts[s + 1].n, v)>>,
             u |-> alts[s + 1].off + v] : v \in Sample(alts[s + 1].n)}
           : s \in 0..3}

\* the continuation groups of a 64-bit integer after its first 12 bits
RECURSIVE VarintTail(_, _)
VarintTail(shift, groups) ==
    {[chunks |-> <<Chunk(1, 0)>>, add |-> 0]}
      \cup
    (IF groups = 0 THEN {}
     ELSE IF shift = 60
     THEN {[chunks |-> <<Chunk(1, 1), Chunk(4, v)>>, add |-> v * Pow2(60)]
              : v \in Sample(4)}
     ELSE {[chunks |-> <<Chunk(1, 1), Chunk(8, v)>> \o t.chunks,
            add |-> v * Pow2(shift) + t.add]
              : v \in Sample(8), t \in VarintTail(shift + 8, groups - 1)})

U64Outcomes ==
    {[chunks |-> <<Chunk(2, 0)>>, u |-> 0]}
      \cup {[chunks |-> <<Chunk(2, 1), Chunk(4, v)>>, u |-> 1 + v]
              : v \in Sample(4)}
      \cup {[chunks |-> <<Chunk(2, 2), Chunk(8, v)>>, u |-> 17 + v]
              : v \in Sample(8)}
      \cup {[chunks |-> <<Chunk(2, 3), Chunk(12, v)>> \o t.chunks,
             u |-> v + t.add]
              : v \in Sample(12), t \in VarintTail(12, MaxVarintGroups)}

NameBytes == {0, 65}

StringLenCoder == <<Val(0), BitsOffset(4, 0), BitsOffset(5, 16), BitsOffset(10, 48)>>

StringOutcomes ==
    UNION {{[chunks |-> l.chunks \o [i \in 1..l.u |-> Chunk(8, b[i])],
             u |-> b] : b \in [1..l.u -> NameBytes]}
           : l \in {x \in U2SOutcomes(StringLenCoder) : x.u <= MaxNameLen}}

\* an extension block: the 64-bit selector, a bit count for each selected
\* extension, then that many bits skipped; explored for no extension and
\* for extension 0 with a payload of 0 bits or of 1 bit
ExtensionsOutcomes ==
    {[chunks |-> <<Chunk(2, 0)>>, u |-> "Extensions"],
     [chunks |-> <<Chunk(2, 1), Chunk(4, 0), Chunk(2, 0)>>,
      u |-> "Extensions"],
     [chunks |-> <<Chunk(2, 1), Chunk(4, 0), Chunk(2, 1), Chunk(4, 0),
                   Chunk(1, 0)>>,
      u |-> "Extensions"]}

ReadOutcomes(coder) ==
    CASE coder.k = "Bool" ->
            {[chunks |-> <<Chunk(1, b)>>, u |-> b] : b \in {0, 1}}
      [] coder.k = "Bits" ->
            {[chunks |-> <<Chunk(coder.n, v)>>, u |-> v] : v \in Sample(coder.n)}
      [] coder.k = "F16" ->
            {[chunks |-> <<Chunk(16, v)>>, u |-> v] : v \in Sample(16)}
      [] coder.k = "U2S" -> U2SOutcomes(coder.alts)
      [] coder.k = "U64" -> U64Outcomes
      [] coder.k = "String" -> StringOutcomes
      [] coder.k = "Extensions" -> ExtensionsOutcomes

EnumTypes == {"FrameType", "Encoding", "BlendingMode"}

FromU32(ty, u) ==
    CASE ty = "FrameType" -> FrameTypeFromU32(u)
      [] ty = "Encoding" -> EncodingFromU32(u)
      [] ty = "BlendingMode" -> BlendingModeFromU32(u)

\* an enum field whose code maps to no variant
InvalidEnum(ty, u) == ty \in EnumTypes /\ FromU32(ty, u) = NoTag

UnpackSigned(u) == IF u % 2 = 0 THEN u \div 2 ELSE 0 - ((u + 1) \div 2)

\* the field value a coder's output becomes
Convert(ty, u) ==
    CASE ty \in EnumTypes -> FromU32(ty, u)
      [] ty = "bool" -> u = 1
      [] ty = "i32" -> UnpackSigned(u)
      [] OTHER -> u

(***************************************************************************)
(* The state: the record type being decoded and its context, the stack of  *)
(* records under construction (innermost first), the bit cursor, the reads *)
(* made so far, and the outcome.                                           *)
(***************************************************************************)
NotComputed == [st |-> "none", hi |-> 0, lo |-> 0]

None == [kind |-> "None", err |-> "", value |-> <<>>]

Ok(r) == [kind |-> "Ok", err |-> "", value |-> r]

Err(e) == [kind |-> "Err", err |-> e, value |-> <<>>]

NewFrame(rt, ns, p) ==
    [rt |-> rt, ns |-> ns, rec |-> <<>>,
     idx |-> IF Aligned(rt) THEN 0 ELSE 1, start |-> p]

Indicator(b) == IF b THEN 1 ELSE 0

ImgSizes == {2, 260}

BaseImgSize == CHOOSE s \in ImgSizes : \A t \in ImgSizes : s <= t

DimShifts == {0, 1, 3}

FrameHeaderContexts ==
    {[xyb_encoded |-> xyb, num_extra_channels |-> Len(eci),
      extra_channel_info |-> eci, have_animation |-> anim,
      have_timecode |-> tc, img_width |-> w, img_height |-> h] :
        xyb \in BOOLEAN, anim \in BOOLEAN, tc \in BOOLEAN,
        w \in ImgSizes, h \in ImgSizes,
        eci \in UNION {[1..n -> DimShifts] : n \in 0..MaxExtraChannels}}

FrameHeaderContextCost(ns) ==
    Indicator(ns.xyb_encoded) + Indicator(ns.have_animation)
      + Indicator(ns.have_timecode)
      + Indicator(ns.img_width # BaseImgSize)
      + Indicator(ns.img_height # BaseImgSize)
      + Len(ns.extra_channel_info)
      + Cardinality({i \in 1..Len(ns.extra_channel_info) :
                        ns.extra_channel_info[i] # 0})

\* the crop a frame header can hand down: all zero without have_crop
BlendingInfoContexts ==
    {[num_extra_channels |-> n, have_crop |-> hc, x0 |-> x, y0 |-> y,
      width |-> w, height |-> h,
      img_width |-> BaseImgSize, img_height |-> BaseImgSize] :
        n \in 0..MaxExtraChannels, hc \in BOOLEAN,
        x \in {0, 1, -1}, y \in {0, 1}, w \in {0, 2, 5}, h \in {0, 2}}

BlendingInfoContextOk(ns) ==
    ns.have_crop \/ (ns.x0 = 0 /\ ns.y0 = 0 /\ ns.width = 0 /\ ns.height = 0)

\* the crop rectangle of a cropped frame is free
BlendingInfoContextCost(ns) ==
    ns.num_extra_channels + Indicator(ns.have_crop)

Contexts(rt) ==
    CASE rt = "FrameHeader" ->
            {ns \in FrameHeaderContexts :
                FrameHeaderContextCost(ns) <= MaxNonzero}
      [] rt = "BlendingInfo" ->
            {ns \in BlendingInfoContexts :
                /\ BlendingInfoContextOk(ns)
                /\ BlendingInfoContextCost(ns) <= MaxNonzero}
      [] rt = "RestorationFilter" ->
            {[encoding |-> e] : e \in {"VarDCT", "Modular"}}
      [] rt = "Toc" ->
            {[permuted |-> FALSE, num_entries |-> n, entries |-> <<>>] :
                n \in 0..MaxTocEntries}
      [] rt = "Passes" -> {<<>>}

ContextCost(rt, ns) ==
    CASE rt = "FrameHeader" -> FrameHeaderContextCost(ns)
      [] rt = "BlendingInfo" -> BlendingInfoContextCost(ns)
      [] rt = "RestorationFilter" -> Indicator(ns.encoding # "VarDCT")
      [] OTHER -> 0

StartPositions == {0, 5}

\* decode_jxl has not been called
NotStarted ==
    [pc |-> "idle", decoder |-> "none", input_buffer |-> 0, frames |-> 0,
     processed |-> "none", consumed |-> 0, completed |-> 0,
     has_more_frames |-> FALSE, ret |-> "none"]

Init ==
    /\ top \in RecordTypes
    /\ ns0 \in Contexts(top)
    /\ pos \in StartPositions
    /\ used = ContextCost(top, ns0) + Indicator(pos # 0)
    /\ used <= MaxNonzero
    /\ stack = <<NewFrame(top, ns0, pos)>>
    /\ log = <<>>
    /\ result = None
    /\ nchecks = 0
    /\ derived = NotComputed
    /\ cli = NotStarted

(***************************************************************************)
(* The engine: one step per field.                                         *)
(***************************************************************************)
Running == result.kind = "None" /\ stack # <<>>

Cur == stack[1]

InField == Running /\ Cur.idx \in 1..Len(Fields(Cur.rt))

CurField == Fields(Cur.rt)[Cur.idx]

\* the elements of the current field decoded so far
Partial(fr, f) == IF f \in DOMAIN fr.rec THEN fr.rec[f] ELSE <<>>

\* a field of a record with a default shortcut is present only when the
\* shortcut bit was false
Present(fr, f) ==
    /\ (HasAllDefault(fr.rt) /\ f # "all_default") => ~fr.rec.all_default
    /\ Condition(fr.rt, f, fr.rec, fr.ns)

\* frame fr with value v stored in (or appended to) its current field
Stored(fr, f, v) ==
    IF IsVec(fr.rt, f)
    THEN LET elems == Append(Partial(fr, f), v)
         IN  [fr EXCEPT !.rec = (f :> elems) @@ @,
                        !.idx = IF Len(elems) = Size(fr.rt, f, fr.rec, fr.ns)
                                THEN @ + 1 ELSE @]
    ELSE [fr EXCEPT !.rec = (f :> v) @@ @, !.idx = @ + 1]

PadBits == (8 - (pos % 8)) % 8

\* #[aligned]: the cursor moves to the next byte boundary before the fields
Align ==
    /\ Running
    /\ Cur.idx = 0
    /\ pos' = pos + PadBits
    /\ stack' = <<[Cur EXCEPT !.idx = 1, !.start = pos + PadBits]>>
                  \o Tail(stack)
    /\ UNCHANGED <<top, ns0, log, result, used, nchecks, derived, cli>>

\* the presence condition is false: the field takes its default
FieldAbsent ==
    /\ InField
    /\ CurField \notin DOMAIN Cur.rec
    /\ ~Present(Cur, CurField)
    /\ stack' = <<[Cur EXCEPT
                     !.rec = (CurField :>
                                Default(Cur.rt, CurField, Cur.rec, Cur.ns))
                             @@ @,
                     !.idx = @ + 1]>> \o Tail(stack)
    /\ UNCHANGED <<top, ns0, pos, log, result, used, nchecks, derived, cli>>

\* a present sequence of declared length 0
VecEmpty ==
    /\ InField
    /\ IsVec(Cur.rt, CurField)
    /\ CurField \notin DOMAIN Cur.rec
    /\ Present(Cur, CurField)
    /\ Size(Cur.rt, CurField, Cur.rec, Cur.ns) = 0
    /\ stack' = <<[Cur EXCEPT !.rec = (CurField :> <<>>) @@ @,
                              !.idx = @ + 1]>> \o Tail(stack)
    /\ UNCHANGED <<top, ns0, pos, log, result, used, nchecks, derived, cli>>

\* the current field has a value, or an element, to decode
Pending ==
    /\ InField
    /\ Present(Cur, CurField)
    /\ IF IsVec(Cur.rt, CurField)
       THEN Len(Partial(Cur, CurField))
              < Size(Cur.rt, CurField, Cur.rec, Cur.ns)
       ELSE CurField \notin DOMAIN Cur.rec

\* a present field (or the next element of a present sequence) is read
\* with its coder; an enum code that maps to no variant fails the decode
FieldRead ==
    /\ Pending
    /\ Coder(Cur.rt, CurField).k # "Sub"
    /\ \E o \in ReadOutcomes(Coder(Cur.rt, CurField)) :
        /\ used + Nonzero(o.chunks) <= MaxNonzero
        /\ used' = used + Nonzero(o.chunks)
        /\ pos' = pos + SumBits(o.chunks)
        /\ log' = Append(log, [rt |-> Cur.rt, f |-> CurField,
                               chunks |-> o.chunks, u |-> o.u])
        /\ IF InvalidEnum(Type(Cur.rt, CurField), o.u)
           THEN /\ result' = Err("InvalidEnum")
                /\ stack' = <<>>
           ELSE /\ result' = result
                /\ stack' = <<Stored(Cur, CurField,
                                     Convert(Type(Cur.rt, CurField), o.u))>>
                              \o Tail(stack)
    /\ UNCHANGED <<top, ns0, nchecks, derived, cli>>

\* a present sub-record (or the next sub-record element) starts decoding
\* with the context assembled from the fields decoded so far
SubBegin ==
    /\ Pending
    /\ Coder(Cur.rt, CurField).k = "Sub"
    /\ stack' = <<NewFrame(Coder(Cur.rt, CurField).rt,
                           SubNs(Cur.rt, CurField, Cur.rec, Cur.ns), pos)>>
                  \o stack
    /\ log' = Append(log, [rt |-> Cur.rt, f |-> CurField,
                           chunks |-> <<>>, u |-> 0])
    /\ UNCHANGED <<top, ns0, pos, result, used, nchecks, derived, cli>>

Finished(fr) == fr.idx > Len(Fields(fr.rt))

\* a sub-record is complete: it is validated if it declares so and becomes
\* the value of the parent's field
SubEnd ==
    /\ Running
    /\ Len(stack) >= 2
    /\ Finished(Cur)
    /\ nchecks' = nchecks + Indicator(Validates(Cur.rt))
    /\ IF Validation(Cur.rt, Cur.rec, Cur.ns) = "Ok"
       THEN /\ result' = result
            /\ stack' = <<Stored(stack[2],
                                 Fields(stack[2].rt)[stack[2].idx], Cur.rec)>>
                          \o Tail(Tail(stack))
       ELSE /\ result' = Err(Validation(Cur.rt, Cur.rec, Cur.ns))
            /\ stack' = <<>>
    /\ UNCHANGED <<top, ns0, pos, log, used, derived, cli>>

\* the outermost record is complete: the validation it declares runs, and
\* the record is returned only if it passes
Finish ==
    /\ Running
    /\ Len(stack) = 1
    /\ Finished(Cur)
    /\ nchecks' = nchecks + Indicator(Validates(Cur.rt))
    /\ result' = IF Validation(Cur.rt, Cur.rec, Cur.ns) = "Ok"
                 THEN Ok(Cur.rec)
                 ELSE Err(Validation(Cur.rt, Cur.rec, Cur.ns))
    /\ stack' = <<>>
    /\ UNCHANGED <<top, ns0, pos, log, used, derived, cli>>

\* the stream ends before the bits the next read needs
Truncated ==
    /\ Running
    /\ \/ Cur.idx = 0 /\ PadBits > 0
       \/ Pending /\ Coder(Cur.rt, CurField).k # "Sub"
    /\ result' = Err("OutOfBounds")
    /\ stack' = <<>>
    /\ UNCHANGED <<top, ns0, pos, log, used, nchecks, derived, cli>>

\* the caller asks a decoded frame header for its TOC entry count
NumTocEntries ==
    /\ result.kind = "Ok"
    /\ top = "FrameHeader"
    /\ derived = NotComputed
    /\ \E checks \in BOOLEAN :
         derived' = num_toc_entries(result.value, checks)
    /\ UNCHANGED <<top, ns0, stack, pos, log, result, used, nchecks, cli>>

Next ==
    \/ Align
    \/ FieldAbsent
    \/ VecEmpty
    \/ FieldRead
    \/ SubBegin
    \/ SubEnd
    \/ Finish
    \/ Truncated
    \/ NumTocEntries

Spec == Init /\ [][Next]_vars

(***************************************************************************)
(* check and num_toc_entries on their own, over every header field they    *)
(* read.  The headers are ones the decode produces: each field holds a     *)
(* value its coder can return or the default its condition leaves.         *)
(***************************************************************************)
RECURSIVE DefaultsFrom(_, _, _, _)
DefaultsFrom(rt, i, r, ns) ==
    IF i > Len(Fields(rt)) THEN r
    ELSE DefaultsFrom(rt, i + 1,
                      (Fields(rt)[i] :> Default(rt, Fields(rt)[i], r, ns))
                        @@ r, ns)

\* the values a four-alternative coder can return, within the samples
U2SRange(coder) == {o.u : o \in U2SOutcomes(coder.alts)}

\* a Passes record as decoded with the given counts
PassesOf(num_passes, num_ds) ==
    [num_passes |-> num_passes, num_ds |-> num_ds,
     shift |-> Repeat(0, num_passes - 1),
     downsample |-> Repeat(1, num_ds),
     last_pass |-> Repeat(0, num_ds)]

DecodablePasses ==
    {PassesOf(1, 0)} \cup
    {PassesOf(np, nds) : np \in U2SRange(PassesCoder.num_passes) \ {1},
                         nds \in U2SRange(PassesCoder.num_ds)}

CheckContexts ==
    {[xyb_encoded |-> FALSE, num_extra_channels |-> Len(eci),
      extra_channel_info |-> eci, have_animation |-> FALSE,
      have_timecode |-> FALSE, img_width |-> BaseImgSize,
      img_height |-> BaseImgSize] :
        eci \in UNION {[1..n -> DimShifts] : n \in 0..(MaxExtraChannels + 1)}}

\* a frame header decoded from a stream that leaves every field but
\* upsampling, ec_upsampling and passes at the value its default has
CheckHeader(ns, ups, ecu, passes) ==
    [DefaultsFrom("FrameHeader", 1, <<>>, ns) EXCEPT
        !.all_default = FALSE, !.upsampling = ups, !.ec_upsampling = ecu,
        !.passes = passes]

\* the state in which the decode has a value for every field and is about
\* to validate
InitCheck ==
    /\ top = "FrameHeader"
    /\ ns0 \in CheckContexts
    /\ pos = 0
    /\ used = 0
    /\ \E ups \in U2SRange(FrameHeaderCoder("upsampling")),
          ecu \in [1..ns0.num_extra_channels ->
                      U2SRange(FrameHeaderCoder("ec_upsampling"))],
          passes \in DecodablePasses :
         stack = <<[rt |-> top, ns |-> ns0,
                    rec |-> CheckHeader(ns0, ups, ecu, passes),
                    idx |-> Len(FrameHeaderFields) + 1, start |-> 0]>>
    /\ log = <<>>
    /\ result = None
    /\ nchecks = 0
    /\ derived = NotComputed
    /\ cli = NotStarted

SpecCheck == InitCheck /\ [][Finish]_vars

TocSizes ==
    {0, 1, 8, 9, 128, 129, 256, 257, 1024, 1025, 2049, 18688 + Pow2(30) - 1}

TocContext ==
    [xyb_encoded |-> FALSE, num_extra_channels |-> 0,
     extra_channel_info |-> <<>>, have_animation |-> FALSE,
     have_timecode |-> FALSE, img_width |-> BaseImgSize,
     img_height |-> BaseImgSize]

\* a cropped Modular frame with chroma subsampling, as decoded
TocHeader(w, h, ups, gss, passes) ==
    [DefaultsFrom("FrameHeader", 1, <<>>, TocContext) EXCEPT
        !.all_default = FALSE, !.encoding = "Modular", !.do_ycbcr = TRUE,
        !.jpeg_upsampling = ups, !.group_size_shift = gss,
        !.passes = passes, !.have_crop = TRUE, !.width = w, !.height = h]

\* the state in which a frame header has been returned to the caller
InitNumToc ==
    /\ top = "FrameHeader"
    /\ ns0 = TocContext
    /\ pos = 0
    /\ used = 0
    /\ stack = <<>>
    /\ log = <<>>
    /\ \E w \in TocSizes, h \in TocSizes, ups \in [1..3 -> 0..3],
          gss \in 0..3, passes \in {PassesOf(1, 0), PassesOf(2, 0)} :
         result = Ok(TocHeader(w, h, ups, gss, passes))
    /\ nchecks = 1
    /\ derived = NotComputed
    /\ cli = NotStarted

SpecNumToc == InitNumToc /\ [][NumTocEntries]_vars

(***************************************************************************)
(* decode_jxl of the command-line tool (jxl_cli/src/main.rs).  The decoder *)
(* behind process and has_more_frames, and the image allocation, are not   *)
(* part of the given sources: a call returns any result its type allows    *)
(* and consumes any number of the bytes left in input_buffer.              *)
(*   cli.decoder      the typestate of the decoder value held              *)
(*   cli.input_buffer the bytes left of the input                          *)
(*   cli.frames       the length of image_data.frames                      *)
(*   cli.processed    the ProcessingResult of the last process call        *)
(*   cli.consumed     the bytes that call took from input_buffer           *)
(*   cli.completed    the frame-pixel stages that have completed           *)
(*   cli.ret          what decode_jxl returned, or that it panicked        *)
(***************************************************************************)
DecoderVars == <<top, ns0, stack, pos, log, result, used, nchecks, derived>>

Stages == {"Initialized", "WithImageInfo", "WithFrameInfo"}

\* the typestate a Complete result carries
StageAfterLooping(decoder) ==
    CASE decoder = "Initialized" -> "WithImageInfo"
      [] decoder = "WithImageInfo" -> "WithImageInfo"
      [] decoder = "WithFrameInfo" -> "WithImageInfo"

StageAfter(decoder) ==
    CASE decoder = "Initialized" -> "WithImageInfo"
      [] decoder = "WithImageInfo" -> "WithFrameInfo"
      [] decoder = "WithFrameInfo" -> "WithImageInfo"

\* where decode_jxl continues after the loop on this typestate
PcAfter(decoder) ==
    CASE decoder = "Initialized" -> "process"
      [] decoder = "WithImageInfo" -> "outputs"
      [] decoder = "WithFrameInfo" -> "push"

is_emptyNever(input_buffer) == FALSE

is_empty(input_buffer) == input_buffer = 0

Returns(value) == [cli EXCEPT !.pc = "done", !.ret = value]

InitCli ==
    /\ top = "FrameHeader"
    /\ ns0 = TocContext
    /\ pos = 0
    /\ used = 0
    /\ stack = <<>>
    /\ log = <<>>
    /\ result = None
    /\ nchecks = 0
    /\ derived = NotComputed
    /\ \E n \in 0..MaxInput :
         cli = [NotStarted EXCEPT !.pc = "process",
                                  !.decoder = "Initialized",
                                  !.input_buffer = n]

\* decoder.process(&mut input_buffer, ..).unwrap()
CliProcess ==
    /\ cli.pc = "process"
    /\ \E k \in 0..cli.input_buffer,
          r \in {"Complete", "NeedsMoreInput", "Err"} :
         cli' = IF r = "Err"
                THEN [Returns("panic") EXCEPT
                         !.input_buffer = @ - k, !.processed = r,
                         !.consumed = k]
                ELSE [cli EXCEPT !.pc = "match", !.input_buffer = @ - k,
                                 !.processed = r, !.consumed = k]
    /\ UNCHANGED DecoderVars

\* Complete { result } => break Ok(result)
CliComplete ==
    /\ cli.pc = "match"
    /\ cli.processed = "Complete"
    /\ cli' = [cli EXCEPT
                 !.pc = PcAfter(cli.decoder),
                 !.decoder = StageAfter(cli.decoder),
                 !.completed =
                    @ + Indicator(cli.decoder = "WithFrameInfo")]
    /\ UNCHANGED DecoderVars

\* NeedsMoreInput { fallback, .. } with input left: decoder = fallback
CliRetry ==
    /\ cli.pc = "match"
    /\ cli.processed = "NeedsMoreInput"
    /\ ~is_empty(cli.input_buffer)
    /\ cli' = [cli EXCEPT !.pc = "process"]
    /\ UNCHANGED DecoderVars

\* NeedsMoreInput with no input left: break Err("Source file truncated")
CliTruncated ==
    /\ cli.pc = "match"
    /\ cli.processed = "NeedsMoreInput"
    /\ is_empty(cli.input_buffer)
    /\ cli' = Returns("Source file truncated")
    /\ UNCHANGED DecoderVars

\* the output images are allocated: Image::new(..)?
CliOutputs ==
    /\ cli.pc = "outputs"
    /\ \E ok \in BOOLEAN :
         cli' = IF ok THEN [cli EXCEPT !.pc = "process"]
                ELSE Returns("Err")
    /\ UNCHANGED DecoderVars

\* the frame is assembled (planes_from_interleaved(..)? for colour) and
\* pushed on image_data.frames
CliPush ==
    /\ cli.pc = "push"
    /\ \E ok \in BOOLEAN :
         cli' = IF ok THEN [cli EXCEPT !.pc = "more", !.frames = @ + 1]
                ELSE Returns("Err")
    /\ UNCHANGED DecoderVars

\* if !decoder_with_image_info.has_more_frames() { break }
CliHasMore ==
    /\ cli.pc = "more"
    /\ \E more \in BOOLEAN :
         /\ more => cli.frames < MaxFrames
         /\ cli' = IF more
                   THEN [cli EXCEPT !.pc = "process",
                                    !.has_more_frames = TRUE]
                   ELSE [Returns("Ok") EXCEPT !.has_more_frames = FALSE]
    /\ UNCHANGED DecoderVars

NextCli ==
    \/ CliProcess
    \/ CliComplete
    \/ CliRetry
    \/ CliTruncated
    \/ CliOutputs
    \/ CliPush
    \/ CliHasMore

\* decode_jxl runs on: a step that can be taken is taken
SpecCli == InitCli /\ [][NextCli]_vars /\ WF_vars(NextCli)

(***************************************************************************)
(* Properties.                                                             *)
(***************************************************************************)
\* some extra channel has (u << d) < base upsampling, or u > 8
EcViolation(h, ns) ==
    \E i \in 1..Len(h.ec_upsampling) :
        \/ h.ec_upsampling[i] * Pow2(ns.extra_channel_info[i]) < h.upsampling
        \/ h.ec_upsampling[i] > 8

\* C1: on a decoded header, check fails with InvalidEcUpsampling if and
\* only if some extra channel with dimension shift d and upsampling u has
\* (u << d) < base upsampling or u > 8.
C1_EcUpsamplingIff ==
    [][Finish =>
         ((result' = Err("InvalidEcUpsampling"))
             <=> EcViolation(Cur.rec, Cur.ns))]_vars

C1_Witness ==
    /\ result = Err("InvalidEcUpsampling")
    /\ \E i \in 1..Len(ns0.extra_channel_info) :
          ns0.extra_channel_info[i] > 0

\* C2 as stated: check fails with NumPassesTooLarge whenever
\* num_ds >= num_passes and succeeds whenever num_ds < num_passes.
C2_Original ==
    [][Finish =>
         IF Cur.rec.passes.num_ds >= Cur.rec.passes.num_passes
         THEN result' = Err("NumPassesTooLarge")
         ELSE result'.kind = "Ok"]_vars

\* C2, amended: when the extra-channel upsampling constraint holds, check
\* fails with NumPassesTooLarge if num_ds >= num_passes and succeeds if
\* num_ds < num_passes; a violated extra-channel constraint is reported
\* first, whatever the pass counts.
C2_PassesAfterEc ==
    [][Finish =>
         IF EcViolation(Cur.rec, Cur.ns)
         THEN result' = Err("InvalidEcUpsampling")
         ELSE IF Cur.rec.passes.num_ds >= Cur.rec.passes.num_passes
         THEN result' = Err("NumPassesTooLarge")
         ELSE result' = Ok(Cur.rec)]_vars

C2_Witness ==
    /\ result = Err("NumPassesTooLarge")
    /\ ns0.num_extra_channels > 0

C3_MaxShift(table, ups) ==
    Max(Max(table[ups[1] + 1], table[ups[2] + 1]), table[ups[3] + 1])

C3_Plus2(p) ==
    <<(p.hi + ((p.lo + 2) \div 65536)) % 65536, (p.lo + 2) % 65536>>

\* the count with DC groups of 128 << group_size_shift blocks of 8 pixels,
\* the block count rounded up to the chroma subsampling
C3_Blocks(h) ==
    LET gd == 128 * Pow2(h.group_size_shift)
        hs == C3_MaxShift(<<0, 1, 1, 0>>, h.jpeg_upsampling)
        vs == C3_MaxShift(<<0, 1, 0, 1>>, h.jpeg_upsampling)
        xb == DivCeil(h.width, 8 * Pow2(hs)) * Pow2(hs)
        yb == DivCeil(h.height, 8 * Pow2(vs)) * Pow2(vs)
        groups == Mul32(DivCeil(h.width, gd), DivCeil(h.height, gd))
    IN  IF groups.hi = 0 /\ groups.lo = 1 /\ h.passes.num_passes = 1
        THEN <<0, 1>>
        ELSE C3_Plus2(Mul32(DivCeil(xb, gd), DivCeil(yb, gd)))

\* the count with DC groups of (128 << group_size_shift) << shift pixels
C3_Pixels(h) ==
    LET gd == 128 * Pow2(h.group_size_shift)
        hs == C3_MaxShift(<<0, 1, 1, 0>>, h.jpeg_upsampling)
        vs == C3_MaxShift(<<0, 1, 0, 1>>, h.jpeg_upsampling)
        groups == Mul32(DivCeil(h.width, gd), DivCeil(h.height, gd))
    IN  IF groups.hi = 0 /\ groups.lo = 1 /\ h.passes.num_passes = 1
        THEN <<0, 1>>
        ELSE C3_Plus2(Mul32(DivCeil(h.width, gd * Pow2(hs)),
                            DivCeil(h.height, gd * Pow2(vs))))

\* C3 as stated: num_toc_entries is 1 for a single group and a single
\* pass, otherwise 2 + the product of width and height ceiling-divided by
\* (128 << group_size_shift) << max_subsampling_shift pixels.
C3_Original ==
    derived.st = "value" => <<derived.hi, derived.lo>> = C3_Pixels(result.value)

\* C3, amended: num_toc_entries is 1 for a single group and a single pass,
\* otherwise 2 + dc_group_count, where dc_group_count is the product of
\* the block counts ceil(width / (8 << maxhs)) << maxhs and
\* ceil(height / (8 << maxvs)) << maxvs, each ceiling-divided by
\* 128 << group_size_shift (u32 arithmetic, whenever the call returns).
C3_TocCountInBlocks ==
    derived.st = "value" => <<derived.hi, derived.lo>> = C3_Blocks(result.value)

C3_Witness ==
    /\ derived.st = "value"
    /\ result.value.width = 129
    /\ result.value.height = 1025
    /\ result.value.group_size_shift = 0
    /\ result.value.jpeg_upsampling = <<1, 0, 0>>
    /\ <<derived.hi, derived.lo>> = <<0, 4>>

C4_PassesDefaults ==
    [num_passes |-> 1, num_ds |-> 0, shift |-> <<>>, downsample |-> <<>>,
     last_pass |-> <<>>]

C4_BlendingInfoDefaults ==
    [mode |-> "Replace", alpha_channel |-> 0, clamp |-> FALSE, source |-> 0]

\* 0.115169525 and 0.061248592 and the other constants that are no 16-bit
\* float are the codes 65536 + nearest 16-bit float
C4_RestorationFilterDefaults ==
    [all_default |-> TRUE, gab |-> TRUE, gab_custom |-> FALSE,
     gab_x_weight1 |-> 77663, gab_x_weight2 |-> 76759,
     gab_y_weight1 |-> 77663, gab_y_weight2 |-> 76759,
     gab_b_weight1 |-> 77663, gab_b_weight2 |-> 76759,
     epf_iters |-> 2, epf_sharp_custom |-> FALSE,
     epf_sharp_lut |-> <<0, 77970, 78994, 79579, 80018, 80311, 80603, 15360>>,
     epf_weight_custom |-> FALSE,
     epf_channel_scale |-> <<20736, 17664, 17152>>,
     epf_pass1_zeroflush |-> 79667, epf_pass2_zeroflush |-> 80077,
     epf_sigma_custom |-> FALSE, epf_quant_mul |-> 79708,
     epf_pass0_sigma_scale |-> 80691, epf_pass2_sigma_scale |-> 18048,
     epf_border_sad_mul |-> 80213, epf_sigma_for_modular |-> 15360,
     extensions |-> "Extensions"]

C4_FrameHeaderDefaults(ns) ==
    [all_default |-> TRUE, frame_type |-> "RegularFrame",
     encoding |-> "VarDCT", flags |-> 0, do_ycbcr |-> FALSE,
     jpeg_upsampling |-> <<0, 0, 0>>, upsampling |-> 1,
     ec_upsampling |-> [i \in 1..ns.num_extra_channels |-> 1],
     group_size_shift |-> 1, x_qm_scale |-> 3, b_qm_scale |-> 2,
     passes |-> C4_PassesDefaults, lf_level |-> 0, have_crop |-> FALSE,
     x0 |-> 0, y0 |-> 0, width |-> 0, height |-> 0,
     blending_info |-> C4_BlendingInfoDefaults,
     ec_blending_info |->
        [i \in 1..ns.num_extra_channels |-> C4_BlendingInfoDefaults],
     duration |-> 0, timecode |-> 0, is_last |-> TRUE,
     save_as_reference |-> 0, save_before_ct |-> FALSE, name |-> <<>>,
     restoration_filter |-> C4_RestorationFilterDefaults,
     extensions |-> "Extensions"]

C4_Defaults(rt, ns) ==
    IF rt = "FrameHeader" THEN C4_FrameHeaderDefaults(ns)
    ELSE C4_RestorationFilterDefaults

C4_Shortcut(rt, r) ==
    /\ rt \in {"FrameHeader", "RestorationFilter"}
    /\ "all_default" \in DOMAIN r
    /\ r.all_default

C5_Alternatives(rt, f) ==
    CASE rt = "Passes" /\ f = "num_passes" -> <<<<0, 0, 0, 3>>, <<1, 2, 3, 4>>>>
      [] rt = "Passes" /\ f = "num_ds" -> <<<<0, 0, 0, 1>>, <<0, 1, 2, 3>>>>
      [] rt = "Passes" /\ f = "downsample" -> <<<<0, 0, 0, 0>>, <<1, 2, 4, 8>>>>
      [] rt = "Passes" /\ f = "last_pass" -> <<<<0, 0, 0, 3>>, <<0, 1, 2, 0>>>>
      [] rt = "BlendingInfo" /\ f = "mode" -> <<<<0, 0, 0, 2>>, <<0, 1, 2, 3>>>>
      [] rt = "BlendingInfo" /\ f = "alpha_channel" ->
            <<<<0, 0, 0, 3>>, <<0, 1, 2, 3>>>>
      [] rt = "BlendingInfo" /\ f = "source" -> <<<<0, 0, 0, 0>>, <<0, 1, 2, 3>>>>
      [] rt = "Toc" /\ f = "entries" ->
            <<<<10, 14, 22, 30>>, <<0, 1024, 17408, 4211712>>>>
      [] rt = "FrameHeader" /\ f \in {"upsampling", "ec_upsampling"} ->
            <<<<0, 0, 0, 0>>, <<1, 2, 4, 8>>>>
      [] rt = "FrameHeader" /\ f = "lf_level" -> <<<<0, 0, 0, 0>>, <<1, 2, 3, 4>>>>
      [] rt = "FrameHeader" /\ f \in {"x0", "y0", "width", "height"} ->
            <<<<8, 11, 14, 30>>, <<0, 256, 2304, 18688>>>>
      [] rt = "FrameHeader" /\ f = "duration" -> <<<<0, 0, 8, 32>>, <<0, 1, 0, 0>>>>
      [] OTHER -> <<>>

C5_ReadAsDeclared(e) ==
    LET alt == C5_Alternatives(e.rt, e.f)
        s == e.chunks[1].v
    IN  alt # <<>> =>
          /\ e.chunks[1].n = 2
          /\ s \in 0..3
          /\ SumBits(e.chunks) = 2 + alt[1][s + 1]
          /\ IF alt[1][s + 1] = 0
             THEN Len(e.chunks) = 1 /\ e.u = alt[2][s + 1]
             ELSE /\ Len(e.chunks) = 2
                  /\ e.chunks[2].n = alt[1][s + 1]
                  /\ e.u = alt[2][s + 1] + e.chunks[2].v

\* C5: every u2S read consumes a 2-bit selector s and then exactly the
\* declared bit width of alternative s (none for a constant) and returns
\* offset[s] + raw; for Passes.num_passes, selector 3 and raw 5 give 9, and
\* that is the value the field takes.
C5_SelectorCoding ==
    /\ \A i \in 1..Len(log) : C5_ReadAsDeclared(log[i])
    /\ \A i \in 1..Len(log) :
          (/\ log[i].rt = "Passes"
           /\ log[i].f = "num_passes"
           /\ log[i].chunks = <<Chunk(2, 3), Chunk(3, 5)>>) => log[i].u = 9
    /\ (top = "Passes" /\ stack # <<>> /\ "num_passes" \in DOMAIN stack[1].rec)
          => stack[1].rec.num_passes = log[1].u

C5_Witness ==
    /\ top = "Passes"
    /\ result.kind = "Ok"
    /\ log[1].chunks = <<Chunk(2, 3), Chunk(3, 5)>>
    /\ result.value.num_passes = 9
    /\ Len(result.value.shift) = 8

\* the default the comment above save_before_ct gives
C6_d_sbct(h, ns) ==
    ~(/\ FullFrame(h.have_crop, h.x0, h.y0, h.width, h.height,
                   ns.img_width, ns.img_height)
      /\ h.frame_type \in {"RegularFrame", "SkipProgressive"}
      /\ h.blending_info.mode = "Replace"
      /\ (h.duration = 0 \/ h.save_as_reference # 0)
      /\ ~h.is_last)

\* C6: when save_before_ct is not read (frame_type is LFFrame, or
\* all_default is true), its value is d_sbct.
C6_SaveBeforeCtDefault ==
    (/\ top = "FrameHeader"
     /\ result.kind = "Ok"
     /\ (result.value.frame_type = "LFFrame" \/ result.value.all_default))
       => result.value.save_before_ct = C6_d_sbct(result.value, ns0)

C7_ValidCodes(rt, f) ==
    CASE rt = "FrameHeader" /\ f = "frame_type" -> 0..3
      [] rt = "FrameHeader" /\ f = "encoding" -> 0..1
      [] rt = "BlendingInfo" /\ f = "mode" -> 0..4
      [] OTHER -> {}

C7_IsTag(e) == C7_ValidCodes(e.rt, e.f) # {}

\* C7: a tag field whose decoded code is outside the tag set fails the
\* whole decode with InvalidEnum at that read; no record is returned and no
\* later field is read.
C7_InvalidTagFails ==
    \A i \in 1..Len(log) :
        (C7_IsTag(log[i]) /\ log[i].u \notin C7_ValidCodes(log[i].rt, log[i].f))
          => /\ result = Err("InvalidEnum")
             /\ stack = <<>>
             /\ i = Len(log)

C7_Witness ==
    /\ result = Err("InvalidEnum")
    /\ top = "FrameHeader"
    /\ log[Len(log)].f = "mode"
    /\ log[Len(log)].u \in {5, 6}

\* C8: a FrameHeader decode returns either a record with every field set on
\* which check has run once and passed, or an error and no record; a
\* failing field read ends the decode before check runs, a failing check
\* ends it after one run.
C8_AllOrNothing ==
    top = "FrameHeader" =>
      /\ result.kind = "None" => nchecks = 0
      /\ result.kind = "Ok" =>
            /\ DOMAIN result.value =
                 {FrameHeaderFields[i] : i \in 1..Len(FrameHeaderFields)}
            /\ Cardinality(DOMAIN result.value) = 28
            /\ nchecks = 1
            /\ ~EcViolation(result.value, ns0)
            /\ result.value.passes.num_ds < result.value.passes.num_passes
            /\ stack = <<>>
      /\ result.kind = "Err" =>
            /\ result.value = <<>>
            /\ stack = <<>>
            /\ nchecks = IF result.err \in {"InvalidEcUpsampling",
                                            "NumPassesTooLarge"}
                         THEN 1 ELSE 0

C8_Witness ==
    /\ top = "FrameHeader"
    /\ result = Err("NumPassesTooLarge")
    /\ nchecks = 1
    /\ log[Len(log)].f = "extensions"

C9_Expected ==
    <<"permuted">>
      \o (IF log[1].chunks[1].v = 1 THEN <<"permutation">> ELSE <<>>)
      \o [i \in 1..ns0.num_entries |-> "entries"]

\* C9: a Toc decode reads the permuted flag, then the Permutation
\* sub-record only if the flag is set, then exactly num_entries byte sizes;
\* the record returned has permuted equal to the flag bit and entries equal
\* to the num_entries sizes read, in order.
C9_TocOrder ==
    (top = "Toc" /\ log # <<>>) =>
      /\ Len(log) <= Len(C9_Expected)
      /\ \A i \in 1..Len(log) : log[i].f = C9_Expected[i]
      /\ result.kind = "Ok" =>
            /\ Len(log) = Len(C9_Expected)
            /\ result.value.permuted = (log[1].chunks[1].v = 1)
            /\ Len(result.value.entries) = ns0.num_entries
            /\ \A i \in 1..ns0.num_entries :
                  result.value.entries[i]
                    = log[Len(log) - ns0.num_entries + i].u

C9_Witness ==
    /\ top = "Toc"
    /\ result.kind = "Ok"
    /\ result.value.permuted
    /\ Len(result.value.entries) = 2
    /\ result.value.entries[2] = 1024

\* C10: in every record under decode, the fields that the condition,
\* default, size rule and sub-record context of the field being decoded
\* mention are declared earlier in the record and already have a value, and
\* only fields up to the current one have a value.
C10_TopologicalOrder ==
    \A i \in 1..Len(stack) :
        LET fr == stack[i]
            fs == Fields(fr.rt)
        IN  /\ DOMAIN fr.rec \subseteq
                  {fs[j] : j \in 1..Min(fr.idx, Len(fs))}
            /\ fr.idx \in 1..Len(fs) =>
                  /\ Deps(fr.rt, fs[fr.idx]) \subseteq
                        {fs[j] : j \in 1..(fr.idx - 1)}
                  /\ Deps(fr.rt, fs[fr.idx]) \subseteq DOMAIN fr.rec

C10_Witness ==
    /\ stack # <<>>
    /\ stack[1].rt = "FrameHeader"
    /\ stack[1].idx \in 1..Len(FrameHeaderFields)
    /\ FrameHeaderFields[stack[1].idx] = "save_before_ct"
    /\ stack[1].rec.have_crop
    /\ ~stack[1].rec.is_last

\* the top-level record under decode, or the record returned
C11_Header ==
    IF result.kind = "Ok" THEN result.value
    ELSE IF stack # <<>> THEN stack[Len(stack)].rec
    ELSE <<>>

C11_Unread(f) ==
    \A i \in 1..Len(log) : ~(log[i].rt = "FrameHeader" /\ log[i].f = f)

C11_Is(h, f, v) == f \in DOMAIN h => (h[f] = v /\ C11_Unread(f))

\* C11: a field whose presence condition is false takes its declared
\* default and no bits are read for it: x_qm_scale = 3 and b_qm_scale = 2
\* when encoding is Modular or the image is not xyb_encoded,
\* group_size_shift = 1 when encoding is VarDCT, lf_level = 0 unless the
\* frame is an LFFrame, do_ycbcr = false for an xyb_encoded image; and the
\* step that skips a field moves neither the cursor nor the read log.
C11_AbsentTakesDefault ==
    /\ [](top = "FrameHeader" =>
            LET h == C11_Header
            IN  /\ ("encoding" \in DOMAIN h
                      /\ (h.encoding = "Modular" \/ ~ns0.xyb_encoded)) =>
                      /\ C11_Is(h, "x_qm_scale", 3)
                      /\ C11_Is(h, "b_qm_scale", 2)
                /\ ("encoding" \in DOMAIN h /\ h.encoding = "VarDCT") =>
                      C11_Is(h, "group_size_shift", 1)
                /\ ("frame_type" \in DOMAIN h /\ h.frame_type # "LFFrame") =>
                      C11_Is(h, "lf_level", 0)
                /\ ns0.xyb_encoded => C11_Is(h, "do_ycbcr", FALSE))
    /\ [][(/\ InField
           /\ CurField \notin DOMAIN Cur.rec
           /\ ~Present(Cur, CurField)) =>
             /\ pos' = pos
             /\ log' = log
             /\ stack'[1].rec[CurField]
                  = Default(Cur.rt, CurField, Cur.rec, Cur.ns)]_vars

C11_Witness ==
    /\ top = "FrameHeader"
    /\ result.kind = "Ok"
    /\ ~result.value.all_default
    /\ ns0.xyb_encoded
    /\ result.value.encoding = "Modular"
    /\ result.value.x_qm_scale = 3
    /\ result.value.b_qm_scale = 2
    /\ ~C11_Unread("group_size_shift")

C12_FormatErrors == {"InvalidEnum", "InvalidEcUpsampling", "NumPassesTooLarge"}

C12_LastRead == log[Len(log)]

\* C12: a decode that stops because the input ran out fails with
\* OutOfBounds, which is none of the format errors: it is reported before
\* check has run and with no invalid tag read; InvalidEnum is reported only
\* at the read of an invalid tag, and InvalidEcUpsampling and
\* NumPassesTooLarge only by check, after every field has been read.
C12_TruncationDistinct ==
    /\ [](result.kind = "Err" =>
            /\ result.err \in C12_FormatErrors \cup {"OutOfBounds"}
            /\ result.err = "OutOfBounds" =>
                  /\ nchecks = 0
                  /\ \A i \in 1..Len(log) :
                        C7_IsTag(log[i]) =>
                           log[i].u \in C7_ValidCodes(log[i].rt, log[i].f)
            /\ result.err = "InvalidEnum" =>
                  /\ nchecks = 0
                  /\ C7_IsTag(C12_LastRead)
                  /\ C12_LastRead.u
                       \notin C7_ValidCodes(C12_LastRead.rt, C12_LastRead.f)
            /\ result.err \in {"InvalidEcUpsampling", "NumPassesTooLarge"} =>
                  /\ nchecks = 1
                  /\ top = "FrameHeader"
                  /\ C12_LastRead.rt = "FrameHeader"
                  /\ C12_LastRead.f = "extensions")
    /\ [][(result.kind = "None" /\ result'.kind = "Err"
             /\ log' = log /\ nchecks' = nchecks) =>
               (result'.err = "OutOfBounds"
                  /\ result'.err \notin C12_FormatErrors)]_vars

C12_Witness ==
    /\ top = "FrameHeader"
    /\ result = Err("OutOfBounds")
    /\ Len(log) > 0
    /\ C12_LastRead.f = "passes"
    /\ pos % 8 # 0

C13_IsPasses(e) == e.rt = "Passes"

\* the reads of the Passes record, in order
C13_Reads == SelectSeq(log, C13_IsPasses)

C13_Names == [i \in 1..Len(C13_Reads) |-> C13_Reads[i].f]

C13_Times(name, n) == [i \in 1..n |-> name]

C13_Decoded(p) ==
    IF p.num_passes = 1
    THEN /\ C13_Names = <<"num_passes">>
         /\ C13_Reads[1].chunks = <<Chunk(2, 0)>>
         /\ p.num_ds = 0
         /\ p.shift = <<>>
         /\ p.downsample = <<>>
         /\ p.last_pass = <<>>
    ELSE /\ C13_Names = <<"num_passes", "num_ds">>
                          \o C13_Times("shift", p.num_passes - 1)
                          \o C13_Times("downsample", p.num_ds)
                          \o C13_Times("last_pass", p.num_ds)
         /\ Len(p.shift) = p.num_passes - 1
         /\ Len(p.downsample) = p.num_ds
         /\ Len(p.last_pass) = p.num_ds
         /\ \A i \in 1..Len(p.shift) : p.shift[i] = C13_Reads[2 + i].u

\* C13: a decoded Passes with num_passes = 1 was read as the two selector
\* bits of num_passes alone, and has num_ds = 0 and empty shift, downsample
\* and last_pass; with num_passes # 1 the reads are num_passes, num_ds,
\* then num_passes - 1 shift, num_ds downsample and num_ds last_pass
\* elements, in that order.  This holds for a Passes decoded on its own and
\* for the one read inside a frame header.
C13_PassesCounts ==
    /\ (top = "Passes" /\ result.kind = "Ok") =>
          /\ C13_Decoded(result.value)
          /\ Len(C13_Reads) = Len(log)
          /\ result.value.num_passes = 1 => SumBits(log[1].chunks) = 2
    /\ (top = "FrameHeader" /\ result.kind = "Ok" /\ C13_Reads # <<>>) =>
          C13_Decoded(result.value.passes)

C13_Witness ==
    /\ top = "Passes"
    /\ result.kind = "Ok"
    /\ result.value.num_passes = 3
    /\ result.value.num_ds = 1
    /\ Len(log) = 6
    /\ result.value.downsample = <<1>>

\* the frame area [x0, x0 + width) x [y0, y0 + height) covers the image
\* area [0, img_width) x [0, img_height), or there is no crop
C14_full_frame(ns) ==
    \/ ~ns.have_crop
    \/ /\ ns.x0 <= 0
       /\ ns.y0 <= 0
       /\ ns.x0 + ns.width >= ns.img_width
       /\ ns.y0 + ns.height >= ns.img_height

C14_Read(f) == \E i \in 1..Len(log) : log[i].f = f

\* alpha_channel is decoded iff num_extra_channels > 0 and mode is Blend or
\* AlphaWeightedAdd, clamp iff num_extra_channels > 0 and mode is Blend,
\* AlphaWeightedAdd or Mul; an ungated field is 0 / false
C14_AlphaAndClamp ==
    (top = "BlendingInfo" /\ result.kind = "Ok") =>
       LET b == result.value
       IN  /\ C14_Read("alpha_channel") <=>
                (ns0.num_extra_channels > 0
                   /\ b.mode \in {"Blend", "AlphaWeightedAdd"})
           /\ C14_Read("clamp") <=>
                (ns0.num_extra_channels > 0
                   /\ b.mode \in {"Blend", "AlphaWeightedAdd", "Mul"})
           /\ ~C14_Read("alpha_channel") => b.alpha_channel = 0
           /\ ~C14_Read("clamp") => b.clamp = FALSE
           /\ ~C14_Read("source") => b.source = 0

\* C14: in a decoded BlendingInfo, source is decoded iff mode # Replace
\* and the frame is not full_frame (no crop, or the frame area covers the
\* image area); alpha_channel and clamp are decoded iff there are extra
\* channels and the mode is one that uses them; an ungated field is
\* 0 / false.
C14_Gating ==
    /\ C14_AlphaAndClamp
    /\ (top = "BlendingInfo" /\ result.kind = "Ok") =>
          (C14_Read("source") <=>
             (result.value.mode # "Replace" /\ ~C14_full_frame(ns0)))

C15_Order ==
    {<<"Initialized", "WithImageInfo">>, <<"WithImageInfo", "WithFrameInfo">>,
     <<"WithFrameInfo", "WithImageInfo">>}

C15_Retried ==
    cli.pc = "match" /\ cli.processed = "NeedsMoreInput"

\* C15: decode_jxl takes the decoder from Initialized to image info, then
\* per frame to frame info, to frame pixels and back to image info, each
\* change on a Complete result; a NeedsMoreInput result is retried on the
\* same stage if input is left and otherwise ends decode_jxl with "Source
\* file truncated"; a frame is appended only after a completed frame-pixel
\* stage, one per stage, and decode_jxl returns Ok only after
\* has_more_frames has answered false.
C15_Stages ==
    /\ [](/\ cli.ret \notin {"Err", "panic"} =>
                cli.frames = cli.completed - Indicator(cli.pc = "push")
          /\ cli.ret = "Ok" =>
                /\ cli.frames = cli.completed
                /\ cli.frames >= 1
                /\ ~cli.has_more_frames
                /\ cli.decoder = "WithImageInfo"
          /\ cli.pc \in {"outputs"} => cli.decoder = "WithFrameInfo"
          /\ cli.pc \in {"push", "more"} => cli.decoder = "WithImageInfo")
    /\ [][/\ (cli.pc = "match" /\ cli.processed = "Complete") =>
                <<cli.decoder, cli'.decoder>> \in C15_Order
          /\ cli'.decoder # cli.decoder =>
                (cli.pc = "match" /\ cli.processed = "Complete")
          /\ C15_Retried =>
                IF cli.input_buffer = 0
                THEN cli'.ret = "Source file truncated" /\ cli'.pc = "done"
                ELSE /\ cli'.pc = "process"
                     /\ cli'.decoder = cli.decoder
                     /\ cli'.ret = "none"
          /\ cli'.ret = "Source file truncated" =>
                (C15_Retried /\ cli.input_buffer = 0)
          /\ cli'.frames # cli.frames =>
                /\ cli'.frames = cli.frames + 1
                /\ cli.pc = "push"
                /\ cli.completed = cli'.frames
          /\ (cli'.pc = "push" /\ cli.pc # "push") =>
                /\ cli.decoder = "WithFrameInfo"
                /\ cli.processed = "Complete"
          /\ (cli.pc = "more" /\ cli'.has_more_frames) =>
                (cli'.pc = "process" /\ cli'.decoder = "WithImageInfo")
          /\ (cli'.ret = "Ok" /\ cli.ret # "Ok") =>
                (cli.pc = "more" /\ ~cli'.has_more_frames)]_vars

C15_Witness ==
    /\ cli.ret = "Ok"
    /\ cli.frames = 2
    /\ cli.completed = 2
    /\ cli.input_buffer = 0
    /\ cli.consumed = 1

\* decode_jxl is in the retry loop of this decoder stage
C16_InLoop(d) == cli.pc \in {"process", "match"} /\ cli.decoder = d

\* the last process call answered NeedsMoreInput and took no byte of the
\* input left
C16_Stalled ==
    /\ C15_Retried
    /\ cli.consumed = 0
    /\ cli.input_buffer # 0

C17_Overflows(h) ==
    LET gd == 128 * Pow2(h.group_size_shift)
        hs == C3_MaxShift(<<0, 1, 1, 0>>, h.jpeg_upsampling)
        vs == C3_MaxShift(<<0, 1, 0, 1>>, h.jpeg_upsampling)
        xb == DivCeil(h.width, 8 * Pow2(hs)) * Pow2(hs)
        yb == DivCeil(h.height, 8 * Pow2(vs)) * Pow2(vs)
        groups == Mul32(DivCeil(h.width, gd), DivCeil(h.height, gd))
        dc == Mul32(DivCeil(xb, gd), DivCeil(yb, gd))
    IN  \/ groups.over
        \/ dc.over
        \/ dc.hi + ((dc.lo + 2) \div 65536) >= 65536

\* C17: for every decodable crop size, group_size_shift and jpeg_upsampling
\* triplet, the table lookups of num_toc_entries are in bounds and all its
\* values fit in 32 bits: the call returns, and no product or sum has
\* overflowed.
C17_FitsU32 ==
    derived.st # "none" =>
       /\ \A i \in 1..3 : result.value.jpeg_upsampling[i] \in 0..3
       /\ derived.st = "value"
       /\ ~C17_Overflows(result.value)

\* C18: in every decoded FrameHeader, is_last holds only for a
\* RegularFrame or SkipProgressive frame, save_as_reference # 0 only if the
\* frame is no LFFrame and is not the last, and lf_level # 0 only for an
\* LFFrame.
C18_FrameTypeInvariants ==
    (top = "FrameHeader" /\ result.kind = "Ok") =>
       LET h == result.value
       IN  /\ h.is_last =>
                h.frame_type \in {"RegularFrame", "SkipProgressive"}
           /\ h.save_as_reference # 0 =>
                (h.frame_type # "LFFrame" /\ ~h.is_last)
           /\ h.lf_level # 0 => h.frame_type = "LFFrame"

C18_Witness ==
    /\ top = "FrameHeader"
    /\ result.kind = "Ok"
    /\ result.value.frame_type = "LFFrame"
    /\ result.value.lf_level = 2
    /\ ~result.value.is_last
    /\ result.value.save_as_reference = 0

====
